---- MODULE Spec2Model ----
(***************************************************************************)
(* Model of streamlit_app.py: one run of the two-tab analytics dashboard   *)
(* over a Firestore document store.  A run executes, in script order,      *)
(*   get_qr_data, get_loyalty_data, the QR section, the loyalty section,   *)
(*   get_language_data, the language section (which calls get_user_count), *)
(*   get_purchase_data, the purchase section, get_loyalty_activation_data, *)
(*   the activation section.                                               *)
(* A raw document is a function from the field names it holds to values;   *)
(* a pandas DataFrame is a record [cols, rows] whose rows are functions    *)
(* over cols; a Python exception that no try block catches ends the run.   *)
(***************************************************************************)
EXTENDS Integers, Sequences, FiniteSets, TLC

VARIABLES store, db, target_time, pc, fault, errors, unreachable,
          qr_df, loyalty_df, lang_df, purchases_df, stores_df,
          users_df, loyalty_cards_df, active_cards_df, section, view

vars == <<store, db, target_time, pc, fault, errors, unreachable,
          qr_df, loyalty_df, lang_df, purchases_df, stores_df,
          users_df, loyalty_cards_df, active_cards_df, section, view>>

(***************************************************************************)
(* Bounds of the model.                                                    *)
(***************************************************************************)
MaxQR == 2
MaxCards == 2
MaxLang == 2
MaxPurchases == 2
MaxUsers == 2

(***************************************************************************)
(* Values.                                                                 *)
(***************************************************************************)
\* Python None, as a field value of a document or of a frame cell.
None == "None"
\* pandas' missing-value marker, filled in for keys a row's dict lacks.
NaN == "NaN"
\* pandas.isna
isna(v) == v \in {None, NaN}
\* float('inf'), above every render time of the model.
inf == 1000000

SeqsUpTo(S, n) == UNION {[1..k -> S] : k \in 0..n}

\* dict.get(key, default)
Get(doc, key, default) == IF key \in DOMAIN doc THEN doc[key] ELSE default

Range(s) == {s[i] : i \in DOMAIN s}

RECURSIVE SumSeq(_)
SumSeq(s) == IF s = <<>> THEN 0 ELSE Head(s) + SumSeq(Tail(s))

RECURSIVE MaxSeq(_)
MaxSeq(s) == IF Len(s) = 1 THEN s[1]
             ELSE LET m == MaxSeq(Tail(s)) IN IF s[1] >= m THEN s[1] ELSE m

\* The distinct values of s in order of first appearance (Series.unique).
RECURSIVE unique(_)
unique(s) ==
    IF s = <<>> THEN <<>>
    ELSE LET u == unique(SubSeq(s, 1, Len(s) - 1))
         IN IF s[Len(s)] \in Range(u) THEN u ELSE Append(u, s[Len(s)])

(***************************************************************************)
(* DataFrames.                                                             *)
(***************************************************************************)
\* pd.DataFrame(list of dicts): the columns are the union of the keys and a
\* row holds NaN under every key its dict lacks; pd.DataFrame([]) has no
\* column and no row.
DataFrame(data) ==
    LET columns == UNION {DOMAIN data[i] : i \in DOMAIN data}
    IN [cols |-> columns,
        rows |-> [i \in DOMAIN data |->
                    [c \in columns |-> Get(data[i], c, NaN)]]]

\* The None a stage returns in place of a frame.
NoneFrame == [none |-> TRUE]
IsNone(df) == "none" \in DOMAIN df

\* DataFrame.empty: an axis of length 0.
empty(df) == df.cols = {} \/ df.rows = <<>>

\* df[col] as the sequence of its values; the caller checks col \in df.cols,
\* df[col] on a frame without it raises KeyError.
Column(df, col) == [i \in DOMAIN df.rows |-> df.rows[i][col]]

(***************************************************************************)
(* Number formatting: f"{num/den:.<d>f}" for den > 0.                      *)
(***************************************************************************)
RECURSIVE Pow10(_)
Pow10(d) == IF d = 0 THEN 1 ELSE 10 * Pow10(d - 1)

Abs(n) == IF n < 0 THEN -n ELSE n

\* |num| * 10^d / den rounded to the nearest integer, ties to even.
RoundScaled(num, den, d) ==
    LET n == Abs(num) * Pow10(d)
        q == n \div den
        r == n % den
    IN IF 2 * r < den THEN q
       ELSE IF 2 * r > den THEN q + 1
       ELSE q + (q % 2)

RECURSIVE ZeroPad(_, _)
ZeroPad(str, d) == IF Len(str) >= d THEN str ELSE ZeroPad("0" \o str, d)

Fixed(num, den, d) ==
    LET s == RoundScaled(num, den, d)
        whole == ToString(s \div Pow10(d))
        frac == ZeroPad(ToString(s % Pow10(d)), d)
    IN (IF num < 0 THEN "-" ELSE "") \o whole \o "." \o frac

(***************************************************************************)
(* The document store.                                                     *)
(***************************************************************************)
RenderTimes == {0, 40, 50, 51, 75, 76, 100, 101, 201}
QRDocs == {[qr_rtime |-> t] : t \in RenderTimes}
          \cup {[userId |-> "u1"]}
\* Values of the "Target Time (ms)" slider, min_value=50, max_value=200.
TargetTimes == {50, 60, 75, 76, 100, 200}

\* A collection whose documents have ids: the documents in stream order.
WithIds(prefix, datas) ==
    [i \in DOMAIN datas |-> [id |-> prefix \o ToString(i), data |-> datas[i]]]

\* The stores collection: each of s1, s2 is absent, or present without or
\* with a name.
StoreData(id) == {<<>>, [name |-> "Store " \o id]}
StoreEntries(id) ==
    {<<>>} \cup {<<[id |-> id, data |-> d]>> : d \in StoreData(id)}
StoreCollections == {a \o b : a \in StoreEntries("s1"), b \in StoreEntries("s2")}

\* loyaltyCards documents as the Sprint 3 panel reads them.
StoreIdData == {<<>>} \cup {[storeId |-> s] : s \in {"s1", "s2", None}}

\* The users collection.
UserData == {<<>>, [name |-> "Ana"], [name |-> "Luis"]}

\* Language-change events of businessQuestion5.
LangDocs == {[timestamp |-> "t1"], [timestamp |-> "t1", userId |-> "u1"],
             [timestamp |-> "t2", userId |-> "u2", lan |-> "es"],
             [timestamp |-> "t2", userId |-> "u1", lan |-> "en"],
             [timestamp |-> "t1", userId |-> "u1", lan |-> "es"],
             [timestamp |-> "t1", userId |-> None, lan |-> "es"],
             [timestamp |-> "t1", userId |-> "u2", lan |-> None]}

\* The purchases collection: a purchase names its loyalty card (c9 is the
\* id of no card) and its date, and may lack either.
PurchaseDocs ==
    {[date |-> d, loyaltyCardId |-> c] :
        d \in {"2024-01-01", "2024-01-07", None}, c \in {"c1", "c2", "c9"}}
    \cup {[date |-> "2024-01-02"], [loyaltyCardId |-> "c1"],
          [date |-> "soon", loyaltyCardId |-> "c1"]}

\* The loyaltyCards collections the purchase panel is run on.
PurchaseCards ==
    {WithIds("c", cs) :
        cs \in {<<>>, <<[storeId |-> "s1"]>>,
                <<[storeId |-> "s1"], [storeId |-> "s2"]>>,
                <<[storeId |-> "s1"], [storeId |-> "s1"]>>,
                <<<<>>, [storeId |-> "s2"]>>,
                <<[storeId |-> None], [storeId |-> "s1"]>>}}

\* loyaltyCards documents as the activation panel reads them: the member
\* holding the card (u7 is the id of no user) and whether it is current.
ActivationCardData ==
    {[uniandesMemberId |-> u, isCurrent |-> TRUE] : u \in {"u1", "u2", "u7"}}
    \cup {[isCurrent |-> TRUE], [uniandesMemberId |-> "u1"],
          [uniandesMemberId |-> "u1", isCurrent |-> FALSE],
          [uniandesMemberId |-> "u2", current |-> TRUE],
          [uniandesMemberId |-> "u2", isCurrent |-> FALSE, current |-> TRUE]}

EmptyStore == [qr |-> <<>>, loyaltyCards |-> <<>>, stores |-> <<>>,
               users |-> <<>>, lang |-> <<>>, purchases |-> <<>>]

(***************************************************************************)
(* Stages of the run, in script order.                                     *)
(***************************************************************************)
Stages == <<"get_qr_data", "get_loyalty_data", "qr_section",
            "loyalty_section", "get_language_data", "language_section",
            "get_purchase_data", "purchase_section",
            "get_loyalty_activation_data", "activation_section", "done">>

Sections == {"qr_section", "loyalty_section", "language_section",
             "purchase_section", "activation_section"}

StageIndex(name) == CHOOSE i \in DOMAIN Stages : Stages[i] = name
NextStage(name) == Stages[StageIndex(name) + 1]

\* The frame a stage returns from its except branch: pd.DataFrame().
EmptyFrame == DataFrame(<<>>)

(***************************************************************************)
(* Sprint 3: QR render times.                                              *)
(***************************************************************************)
\* The rows get_qr_data builds from the documents of businessQuestionQR.
qr_records(docs) ==
    [i \in DOMAIN docs |->
        [user_id |-> Get(docs[i], "userId", "unknown"),
         render_time |-> Get(docs[i], "qr_rtime", 0),
         timestamp |-> Get(docs[i], "timestamp", "now")]]

\* get_qr_data without its try block: a fault of the store ends the run.
get_qr_data_unguarded(raises) ==
    /\ pc = "get_qr_data"
    /\ IF raises
       THEN /\ pc' = "aborted"
            /\ fault' = "store unavailable"
            /\ unreachable' = unreachable \cup {"get_qr_data"}
            /\ UNCHANGED qr_df
       ELSE /\ qr_df' = IF db = None THEN EmptyFrame
                        ELSE DataFrame(qr_records(store.qr))
            /\ pc' = NextStage(pc)
            /\ UNCHANGED <<fault, unreachable>>
    /\ UNCHANGED <<store, db, target_time, errors, loyalty_df, lang_df,
                   purchases_df, stores_df, users_df, loyalty_cards_df,
                   active_cards_df, section, view>>

\* get_qr_data.  raises: the store raises while the stage runs.
get_qr_data(raises) ==
    /\ pc = "get_qr_data"
    /\ IF raises
       THEN /\ qr_df' = EmptyFrame
            /\ errors' = errors \cup {"get_qr_data"}
            /\ unreachable' = unreachable \cup {"get_qr_data"}
       ELSE /\ qr_df' = IF db = None THEN EmptyFrame
                        ELSE DataFrame(qr_records(store.qr))
            /\ UNCHANGED <<errors, unreachable>>
    /\ pc' = NextStage(pc)
    /\ UNCHANGED <<store, db, target_time, fault, loyalty_df, lang_df,
                   purchases_df, stores_df, users_df, loyalty_cards_df,
                   active_cards_df, section, view>>

labels == <<"Excellent", "Good", "Acceptable", "Unsatisfactory">>
bins(t) == <<0, 50, 75, t, inf>>

\* pd.cut refuses bin edges that do not increase strictly (ValueError).
BinsIncrease(b) == \A i \in 1..(Len(b) - 1) : b[i] < b[i + 1]

\* searchsorted with side="right": the number of edges not above x.
searchsorted_right(b, x) == Cardinality({i \in DOMAIN b : b[i] <= x})

\* numpy.searchsorted(b, x, side="left"): the number of edges below x.
searchsorted(b, x) == Cardinality({i \in DOMAIN b : b[i] < x})

\* pd.cut(x, bins=b, labels=l) for one value, right=True: the label of the
\* bin the value's insertion index names, NaN for an index off either end.
cut(x, b, l) ==
    LET ids == searchsorted(b, x)
    IN IF ids = 0 \/ ids = Len(b) THEN NaN ELSE l[ids]

\* Series.value_counts() of a categorical: one count for every category,
\* NaN left out.
category_counts(cats, l) ==
    [c \in Range(l) |-> Cardinality({i \in DOMAIN cats : cats[i] = c})]

\* The "QR Render Time Analysis" section.
qr_section ==
    /\ pc = "qr_section"
    /\ IF empty(qr_df)
       THEN /\ section' = [section EXCEPT !["qr_section"] = "nodata"]
            /\ pc' = NextStage(pc)
            /\ UNCHANGED <<fault, view>>
       ELSE LET render_time == Column(qr_df, "render_time")
                n == Len(render_time)
                total == SumSeq(render_time)
                over == Cardinality({i \in DOMAIN render_time :
                                        render_time[i] > target_time})
                metrics ==
                    [average_time |-> Fixed(total, n, 2) \o "ms",
                     average_delta |->
                         Fixed(total - target_time * n, n, 1) \o "ms",
                     maximum_time |-> Fixed(MaxSeq(render_time), 1, 2) \o "ms",
                     over_target |-> Fixed(100 * over, n, 1) \o "%",
                     total_measurements |-> n]
                performance_categories ==
                    [i \in DOMAIN render_time |->
                        cut(render_time[i], bins(target_time), labels)]
            IN IF BinsIncrease(bins(target_time))
               THEN /\ view' =
                         [performance_categories |-> performance_categories,
                          performance_counts |->
                              category_counts(performance_categories, labels)]
                         @@ metrics @@ view
                    /\ section' = [section EXCEPT !["qr_section"] = "shown"]
                    /\ pc' = NextStage(pc)
                    /\ UNCHANGED fault
               ELSE /\ view' = metrics @@ view
                    /\ section' = [section EXCEPT !["qr_section"] = "fault"]
                    /\ fault' = "ValueError: pd.cut bins"
                    /\ pc' = "aborted"
    /\ UNCHANGED <<store, db, target_time, errors, unreachable, qr_df,
                   loyalty_df, lang_df, purchases_df, stores_df, users_df,
                   loyalty_cards_df, active_cards_df>>

(***************************************************************************)
(* Sprint 3: loyalty programs.                                             *)
(***************************************************************************)
\* Two merge keys are equal when they hold the same value or are both null.
KeyEq(a, b) == a = b \/ (isna(a) /\ isna(b))

RECURSIVE Flatten(_)
Flatten(ss) == IF ss = <<>> THEN <<>> ELSE Head(ss) \o Flatten(Tail(ss))

\* df[[c1, c2]]; the caller checks fields \subseteq df.cols.
Project(df, fields) ==
    [cols |-> fields,
     rows |-> [i \in DOMAIN df.rows |-> [c \in fields |-> df.rows[i][c]]]]

\* pd.merge(left, right, on=on, how='left'), no column but the key shared:
\* every left row in order, once for each right row with its key, or once
\* with NaN in the right's columns when no right row has its key.
merge(left, right, on) ==
    LET columns == left.cols \cup right.cols
        Wide(l, r) == [c \in columns |->
                         IF c \in left.cols THEN l[c] ELSE r[c]]
        Unmatched(l) == [c \in columns |->
                           IF c \in left.cols THEN l[c] ELSE NaN]
        Matches(l) == SelectSeq(right.rows, LAMBDA r : KeyEq(r[on], l[on]))
        Expand(l) == IF Matches(l) = <<>> THEN <<Unmatched(l)>>
                     ELSE [j \in DOMAIN Matches(l) |-> Wide(l, Matches(l)[j])]
    IN [cols |-> columns,
        rows |-> Flatten([i \in DOMAIN left.rows |-> Expand(left.rows[i])])]

\* db.collection(coll).document(id).get(): the document with that id, if it
\* exists; document(None) names a fresh document, which does not exist.
Exists(coll, id) == \E i \in DOMAIN coll : coll[i].id = id
Document(coll, id) == coll[CHOOSE i \in DOMAIN coll : coll[i].id = id].data

\* dict with key set to value.
SetKey(doc, key, value) ==
    [k \in DOMAIN doc \cup {key} |-> IF k = key THEN value ELSE doc[k]]

\* The body of get_loyalty_data's try block: the merged frame, or the
\* exception it raises.
loyalty_merged(cards, stores) ==
    IF \E i \in DOMAIN cards : "storeId" \notin DOMAIN cards[i].data
    THEN [raised |-> "KeyError: 'storeId'"]
    ELSE
    LET loyalty_data == [i \in DOMAIN cards |->
                            [storeId |-> cards[i].data["storeId"]]]
        cards_df == DataFrame(loyalty_data)
    IN IF "storeId" \notin cards_df.cols
       THEN [raised |-> "KeyError: 'storeId'"]
       ELSE
       LET store_ids == unique(Column(cards_df, "storeId"))
           found == SelectSeq(store_ids, LAMBDA id : Exists(stores, id))
           stores_data == [j \in DOMAIN found |->
                             SetKey(Document(stores, found[j]),
                                    "storeId", found[j])]
           found_df == DataFrame(stores_data)
       IN IF ~({"storeId", "name"} \subseteq found_df.cols)
          THEN [raised |-> "KeyError: ['storeId', 'name']"]
          ELSE [df |-> merge(cards_df,
                             Project(found_df, {"storeId", "name"}),
                             "storeId")]

\* get_loyalty_data.
get_loyalty_data(raises) ==
    /\ pc = "get_loyalty_data"
    /\ IF raises
       THEN /\ loyalty_df' = EmptyFrame
            /\ errors' = errors \cup {"get_loyalty_data"}
            /\ unreachable' = unreachable \cup {"get_loyalty_data"}
       ELSE IF db = None
       THEN /\ loyalty_df' = EmptyFrame
            /\ UNCHANGED <<errors, unreachable>>
       ELSE LET result == loyalty_merged(store.loyaltyCards, store.stores)
            IN /\ IF "raised" \in DOMAIN result
                  THEN /\ loyalty_df' = EmptyFrame
                       /\ errors' = errors \cup {"get_loyalty_data"}
                  ELSE /\ loyalty_df' = result.df
                       /\ UNCHANGED errors
               /\ UNCHANGED unreachable
    /\ pc' = NextStage(pc)
    /\ UNCHANGED <<store, db, target_time, fault, qr_df, lang_df,
                   purchases_df, stores_df, users_df, loyalty_cards_df,
                   active_cards_df, section, view>>

\* Series.value_counts(): the number of rows per value, null values left
\* out.
value_counts(column) ==
    [v \in {x \in Range(column) : ~isna(x)} |->
        Cardinality({i \in DOMAIN column : column[i] = v})]

\* Series.groupby(col).size(): the number of rows per key, rows with a null
\* key left out.
groupby_size(column) ==
    [v \in {x \in Range(column) : ~isna(x)} |->
        Cardinality({i \in DOMAIN column : column[i] = v})]

\* The sum of a Series of counts.
RECURSIVE SumOver(_, _)
SumOver(f, keys) ==
    IF keys = {} THEN 0
    ELSE LET k == CHOOSE x \in keys : TRUE
         IN f[k] + SumOver(f, keys \ {k})

series_sum(f) == SumOver(f, DOMAIN f)

\* The "Most Popular Loyalty Programs" section.
loyalty_section ==
    /\ pc = "loyalty_section"
    /\ IF empty(loyalty_df)
       THEN /\ section' = [section EXCEPT !["loyalty_section"] = "nodata"]
            /\ UNCHANGED view
       ELSE LET popularity_count == value_counts(Column(loyalty_df, "name"))
            IN /\ view' = [popularity_count |-> popularity_count,
                           total_programs |->
                               Cardinality(DOMAIN popularity_count),
                           total_cards |-> series_sum(popularity_count)]
                          @@ view
               /\ section' = [section EXCEPT !["loyalty_section"] = "shown"]
    /\ pc' = NextStage(pc)
    /\ UNCHANGED <<store, db, target_time, fault, errors, unreachable,
                   qr_df, loyalty_df, lang_df, purchases_df, stores_df,
                   users_df, loyalty_cards_df, active_cards_df>>

(***************************************************************************)
(* Sprint 4: language switching.                                           *)
(***************************************************************************)
\* The rows get_language_data builds; a timestamp is kept as converted to
\* the Bogota time zone, None when the document has none.
language_records(docs) ==
    [i \in DOMAIN docs |->
        [user_id |-> Get(docs[i], "userId", "unknown"),
         language |-> Get(docs[i], "lan", "unknown"),
         timestamp |-> Get(docs[i], "timestamp", None)]]

\* get_language_data.
get_language_data(raises) ==
    /\ pc = "get_language_data"
    /\ IF raises
       THEN /\ lang_df' = EmptyFrame
            /\ errors' = errors \cup {"get_language_data"}
            /\ unreachable' = unreachable \cup {"get_language_data"}
       ELSE /\ lang_df' = IF db = None THEN EmptyFrame
                          ELSE DataFrame(language_records(store.lang))
            /\ UNCHANGED <<errors, unreachable>>
    /\ pc' = NextStage(pc)
    /\ UNCHANGED <<store, db, target_time, fault, qr_df, loyalty_df,
                   purchases_df, stores_df, users_df, loyalty_cards_df,
                   active_cards_df, section, view>>

\* get_user_count: the number of documents of users, 0 without a client and
\* 0 when the store raises.
get_user_count(raises) ==
    IF raises \/ db = None THEN 0 ELSE Len(store.users)

\* f"{(num/den)*100:.1f}%" for den > 0.
percent(num, den) == Fixed(100 * num, den, 1) \o "%"

\* The language section.  raises: the store raises inside get_user_count.
language_section(raises) ==
    /\ pc = "language_section"
    /\ IF empty(lang_df)
       THEN /\ section' = [section EXCEPT !["language_section"] = "nodata"]
            /\ pc' = NextStage(pc)
            /\ UNCHANGED <<fault, view, errors, unreachable>>
       ELSE LET total_users == get_user_count(raises)
                lang_users == Len(unique(Column(lang_df, "user_id")))
                counts == [lang_total_users |-> total_users,
                           lang_users |-> lang_users]
                lang_dist == groupby_size(Column(lang_df, "language"))
                total_changes == groupby_size(Column(lang_df, "user_id"))
            IN /\ errors' = IF raises THEN errors \cup {"get_user_count"}
                            ELSE errors
               /\ unreachable' = IF raises
                                 THEN unreachable \cup {"get_user_count"}
                                 ELSE unreachable
               /\ IF total_users = 0
                  THEN /\ view' = counts @@ view
                       /\ section' =
                            [section EXCEPT !["language_section"] = "fault"]
                       /\ fault' = "ZeroDivisionError: lang_users/total_users"
                       /\ pc' = "aborted"
                  ELSE /\ view' =
                            [language_change_rate |->
                                 percent(lang_users, total_users),
                             lang_dist |-> lang_dist,
                             total_changes |-> total_changes]
                            @@ counts @@ view
                       /\ section' =
                            [section EXCEPT !["language_section"] = "shown"]
                       /\ pc' = NextStage(pc)
                       /\ UNCHANGED fault
    /\ UNCHANGED <<store, db, target_time, qr_df, loyalty_df, lang_df,
                   purchases_df, stores_df, users_df, loyalty_cards_df,
                   active_cards_df>>

(***************************************************************************)
(* Sprint 4: purchase patterns.                                            *)
(***************************************************************************)
\* The dates pd.to_datetime parses in the model, with their day_name().
Calendar == [d \in {"2024-01-01", "2024-01-02", "2024-01-07"} |->
                CASE d = "2024-01-01" -> "Monday"
                  [] d = "2024-01-02" -> "Tuesday"
                  [] d = "2024-01-07" -> "Sunday"]

WeekDays == <<"Monday", "Tuesday", "Wednesday", "Thursday", "Friday",
              "Saturday", "Sunday">>

\* pd.to_datetime raises on a value that is neither null nor a date.
Parses(v) == isna(v) \/ v \in DOMAIN Calendar

\* pd.to_datetime(v).day_name(): null for a null date.
day_name(v) == IF isna(v) THEN NaN ELSE Calendar[v]

\* The Series as it is without reindex: only the keys it has, in the order
\* of index.
keep_present(series, index) ==
    LET present == SelectSeq(index, LAMBDA k : k \in DOMAIN series)
    IN [i \in DOMAIN present |->
          [key |-> present[i], value |-> <<series[present[i]]>>]]

\* A cell of a numeric Series that may be NaN: <<n>> for n, <<>> for NaN.
\* Series.reindex(index): the values in the order of index, NaN for a key
\* the Series lacks.
reindex(series, index) ==
    [i \in DOMAIN index |->
        [key |-> index[i],
         value |-> IF index[i] \in DOMAIN series
                   THEN <<series[index[i]]>> ELSE <<>>]]

\* Series.fillna(v)
fillna(cells, v) ==
    [i \in DOMAIN cells |->
        [key |-> cells[i].key,
         value |-> IF cells[i].value = <<>> THEN v ELSE cells[i].value[1]]]

\* groupby("weekday").size().reindex([...]).fillna(0) over the rows.
weekday_distribution(rows) ==
    fillna(reindex(groupby_size([i \in DOMAIN rows |-> rows[i]["weekday"]]),
                   WeekDays), 0)

\* The body of get_purchase_data's try block: (final_df, stores_df).
purchase_frames(purchases, cards, stores) ==
    LET purchases_data ==
            SelectSeq([i \in DOMAIN purchases |-> purchases[i].data],
                      LAMBDA d : "loyaltyCardId" \in DOMAIN d)
        p_df == DataFrame(purchases_data)
        with_store == SelectSeq(cards, LAMBDA c : "storeId" \in DOMAIN c.data)
        loyalty_data == [i \in DOMAIN with_store |->
                            SetKey(with_store[i].data, "loyaltyCardId",
                                   with_store[i].id)]
        l_df == DataFrame(loyalty_data)
        stores_data ==
            [i \in DOMAIN stores |->
                SetKey(SetKey(stores[i].data, "storeId", stores[i].id),
                       "store_name",
                       Get(stores[i].data, "name", "Unknown Store"))]
        s_df == DataFrame(stores_data)
    IN IF ~empty(p_df) /\ ~empty(l_df) /\ ~empty(s_df)
       THEN LET merged_df ==
                    merge(p_df, Project(l_df, {"loyaltyCardId", "storeId"}),
                          "loyaltyCardId")
                final_df ==
                    merge(merged_df, Project(s_df, {"storeId", "store_name"}),
                          "storeId")
            IN <<final_df, s_df>>
       ELSE <<NoneFrame, NoneFrame>>

\* get_purchase_data.
get_purchase_data(raises) ==
    /\ pc = "get_purchase_data"
    /\ IF raises
       THEN /\ purchases_df' = NoneFrame
            /\ stores_df' = NoneFrame
            /\ errors' = errors \cup {"get_purchase_data"}
            /\ unreachable' = unreachable \cup {"get_purchase_data"}
       ELSE /\ IF db = None
               THEN purchases_df' = NoneFrame /\ stores_df' = NoneFrame
               ELSE LET frames == purchase_frames(store.purchases,
                                                  store.loyaltyCards,
                                                  store.stores)
                    IN purchases_df' = frames[1] /\ stores_df' = frames[2]
            /\ UNCHANGED <<errors, unreachable>>
    /\ pc' = NextStage(pc)
    /\ UNCHANGED <<store, db, target_time, fault, qr_df, loyalty_df, lang_df,
                   users_df, loyalty_cards_df, active_cards_df, section, view>>

\* sorted(values) of a set of strings the model draws store names from.
StoreNames == <<"Store s1", "Store s2", "Unknown Store">>
sorted(values) == SelectSeq(StoreNames, LAMBDA v : v \in values)

\* The first key with the largest (smallest) value among the cells with a
\* positive value: grouped_data[grouped_data > 0].idxmax() and .idxmin().
idxmax(cells) ==
    LET pos == SelectSeq(cells, LAMBDA c : c.value > 0)
        i == CHOOSE j \in DOMAIN pos :
                /\ \A k \in DOMAIN pos : pos[k].value <= pos[j].value
                /\ \A k \in 1..(j - 1) : pos[k].value < pos[j].value
    IN pos[i].key

idxmin(cells) ==
    LET pos == SelectSeq(cells, LAMBDA c : c.value > 0)
        i == CHOOSE j \in DOMAIN pos :
                /\ \A k \in DOMAIN pos : pos[k].value >= pos[j].value
                /\ \A k \in 1..(j - 1) : pos[k].value > pos[j].value
    IN pos[i].key

cells_sum(cells) == SumSeq([i \in DOMAIN cells |-> cells[i].value])

\* The "Purchase Patterns Analysis" section.  choice: the position in the
\* select box of the store the viewer picks.
purchase_section(choice) ==
    /\ pc = "purchase_section"
    /\ IF IsNone(purchases_df) \/ empty(purchases_df)
       THEN /\ choice = 1
            /\ section' = [section EXCEPT !["purchase_section"] = "nodata"]
            /\ pc' = NextStage(pc)
            /\ UNCHANGED <<fault, view, purchases_df>>
       ELSE IF "date" \notin purchases_df.cols
       THEN /\ choice = 1
            /\ section' = [section EXCEPT !["purchase_section"] = "fault"]
            /\ fault' = "KeyError: 'date'"
            /\ pc' = "aborted"
            /\ UNCHANGED <<view, purchases_df>>
       ELSE IF \E i \in DOMAIN purchases_df.rows :
                  ~Parses(purchases_df.rows[i]["date"])
       THEN /\ choice = 1
            /\ section' = [section EXCEPT !["purchase_section"] = "fault"]
            /\ fault' = "ValueError: pd.to_datetime"
            /\ pc' = "aborted"
            /\ UNCHANGED <<view, purchases_df>>
       ELSE LET dated ==
                    [cols |-> purchases_df.cols \cup {"weekday"},
                     rows |-> [i \in DOMAIN purchases_df.rows |->
                                 SetKey(purchases_df.rows[i], "weekday",
                                        day_name(purchases_df.rows[i]["date"]))]]
                total_by_day == weekday_distribution(dated.rows)
                store_names == Column(dated, "store_name")
                stores_with_purchases ==
                    {store_names[i] : i \in {j \in DOMAIN store_names :
                                                ~isna(store_names[j])}}
                options == sorted(stores_with_purchases)
            IN /\ purchases_df' = dated
               /\ section' = [section EXCEPT !["purchase_section"] = "shown"]
               /\ pc' = NextStage(pc)
               /\ UNCHANGED fault
               /\ IF options = <<>>
                  THEN /\ choice = 1
                       /\ view' = [total_by_day |-> total_by_day] @@ view
                  ELSE /\ choice \in DOMAIN options
                       /\ LET store_filter == options[choice]
                              filtered_data ==
                                  SelectSeq(dated.rows, LAMBDA r :
                                      r["store_name"] = store_filter)
                              grouped_data == weekday_distribution(filtered_data)
                              stats ==
                                  IF cells_sum(grouped_data) > 0
                                  THEN [peak_day |-> idxmax(grouped_data),
                                        lowest_day |-> idxmin(grouped_data),
                                        average_daily |->
                                            Fixed(cells_sum(grouped_data), 7, 1),
                                        total_purchases |->
                                            cells_sum(grouped_data)]
                                  ELSE <<>>
                          IN view' = [total_by_day |-> total_by_day,
                                      store_filter |-> store_filter,
                                      filtered_data |-> filtered_data,
                                      grouped_data |-> grouped_data]
                                     @@ stats @@ view
    /\ UNCHANGED <<store, db, target_time, errors, unreachable, qr_df,
                   loyalty_df, lang_df, stores_df, users_df,
                   loyalty_cards_df, active_cards_df>>

(***************************************************************************)
(* Sprint 4: loyalty card activation.                                      *)
(***************************************************************************)
\* The body of get_loyalty_activation_data's try block: the three frames,
\* or the exception it raises.
activation_frames(users, cards) ==
    LET users_data == [i \in DOMAIN users |->
                          [user_id |-> users[i].id,
                           user_name |-> Get(users[i].data, "name", "Unknown")]]
        loyalty_cards_data ==
            [i \in DOMAIN cards |->
                [card_id |-> cards[i].id,
                 user_id |-> Get(cards[i].data, "uniandesMemberId", None),
                 store_id |-> Get(cards[i].data, "storeId", None),
                 is_current |-> Get(cards[i].data, "isCurrent",
                                    Get(cards[i].data, "current", FALSE)),
                 points |-> Get(cards[i].data, "points", 0),
                 max_points |-> Get(cards[i].data, "maxPoints", 0)]]
        cards_df == DataFrame(loyalty_cards_data)
    IN IF "is_current" \notin cards_df.cols
       THEN [raised |-> "KeyError: 'is_current'"]
       ELSE [users_df |-> DataFrame(users_data),
             loyalty_cards_df |-> cards_df,
             active_cards_df |->
                 [cols |-> cards_df.cols,
                  rows |-> SelectSeq(cards_df.rows,
                                     LAMBDA r : r["is_current"] = TRUE)]]

\* get_loyalty_activation_data.
get_loyalty_activation_data(raises) ==
    /\ pc = "get_loyalty_activation_data"
    /\ IF raises
       THEN /\ users_df' = NoneFrame
            /\ loyalty_cards_df' = NoneFrame
            /\ active_cards_df' = NoneFrame
            /\ errors' = errors \cup {"get_loyalty_activation_data"}
            /\ unreachable' = unreachable \cup {"get_loyalty_activation_data"}
       ELSE IF db = None
       THEN /\ users_df' = NoneFrame
            /\ loyalty_cards_df' = NoneFrame
            /\ active_cards_df' = NoneFrame
            /\ UNCHANGED <<errors, unreachable>>
       ELSE LET result == activation_frames(store.users, store.loyaltyCards)
            IN /\ IF "raised" \in DOMAIN result
                  THEN /\ users_df' = NoneFrame
                       /\ loyalty_cards_df' = NoneFrame
                       /\ active_cards_df' = NoneFrame
                       /\ errors' = errors \cup {"get_loyalty_activation_data"}
                  ELSE /\ users_df' = result.users_df
                       /\ loyalty_cards_df' = result.loyalty_cards_df
                       /\ active_cards_df' = result.active_cards_df
                       /\ UNCHANGED errors
               /\ UNCHANGED unreachable
    /\ pc' = NextStage(pc)
    /\ UNCHANGED <<store, db, target_time, fault, qr_df, loyalty_df, lang_df,
                   purchases_df, stores_df, section, view>>

\* Series.value_counts() in display order: the non-null values by falling
\* count, equal counts in order of first appearance.
RECURSIVE by_count(_, _)
by_count(keys, counts) ==
    IF keys = <<>> THEN <<>>
    ELSE LET best == CHOOSE j \in DOMAIN keys :
                        /\ \A k \in DOMAIN keys :
                              counts[keys[k]] <= counts[keys[j]]
                        /\ \A k \in 1..(j - 1) :
                              counts[keys[k]] < counts[keys[j]]
             rest == SelectSeq(keys, LAMBDA x : x # keys[best])
         IN <<[key |-> keys[best], value |-> counts[keys[best]]]>>
            \o by_count(rest, counts)

sorted_value_counts(column) ==
    by_count(SelectSeq(unique(column), LAMBDA v : ~isna(v)),
             value_counts(column))

\* Series.head(n)
head(s, n) == SubSeq(s, 1, IF Len(s) < n THEN Len(s) ELSE n)

\* The "Loyalty Cards Activation Analysis" section.
activation_section ==
    /\ pc = "activation_section"
    /\ IF IsNone(users_df) \/ empty(users_df)
       THEN /\ section' = [section EXCEPT !["activation_section"] = "nodata"]
            /\ pc' = NextStage(pc)
            /\ UNCHANGED <<fault, view>>
       ELSE LET total_users == Len(users_df.rows)
                users_with_cards ==
                    Len(unique(Column(active_cards_df, "user_id")))
                metrics ==
                    [total_users |-> total_users,
                     users_with_cards |-> users_with_cards,
                     activation_rate |-> percent(users_with_cards, total_users),
                     without_cards |-> total_users - users_with_cards]
                top_users ==
                    head(sorted_value_counts(Column(active_cards_df,
                                                    "user_id")), 5)
                top_ids == {top_users[i].key : i \in DOMAIN top_users}
                names == Column(
                    [cols |-> users_df.cols,
                     rows |-> SelectSeq(users_df.rows,
                                        LAMBDA r : r["user_id"] \in top_ids)],
                    "user_name")
            IN IF Len(names) = Len(top_users)
               THEN /\ view' =
                         [top_users_df |->
                              [i \in DOMAIN names |->
                                  [User |-> names[i],
                                   Active_Cards |-> top_users[i].value]]]
                         @@ metrics @@ view
                    /\ section' =
                         [section EXCEPT !["activation_section"] = "shown"]
                    /\ pc' = NextStage(pc)
                    /\ UNCHANGED fault
               ELSE /\ view' = metrics @@ view
                    /\ section' =
                         [section EXCEPT !["activation_section"] = "fault"]
                    /\ fault' = "ValueError: array length does not match index length"
                    /\ pc' = "aborted"
    /\ UNCHANGED <<store, db, target_time, errors, unreachable, qr_df,
                   loyalty_df, lang_df, purchases_df, stores_df, users_df,
                   loyalty_cards_df, active_cards_df>>

(***************************************************************************)
(* Initial states and specifications.                                      *)
(***************************************************************************)
FetchStages == {"get_qr_data", "get_loyalty_data", "get_language_data",
                "get_purchase_data", "get_loyalty_activation_data"}

Before(start) == {Stages[i] : i \in 1..(StageIndex(start) - 1)}

\* The state in which the run reaches stage start when the store raised in
\* every fetch stage before it: those stages returned no data and their
\* sections showed none.  With start = "get_qr_data", the start of the run.
StartAt(start, st, t, client) ==
    /\ store = st
    /\ db = client
    /\ target_time = t
    /\ pc = start
    /\ fault = "none"
    /\ errors = Before(start) \cap FetchStages
    /\ unreachable = Before(start) \cap FetchStages
    /\ qr_df = EmptyFrame
    /\ loyalty_df = EmptyFrame
    /\ lang_df = EmptyFrame
    /\ purchases_df = NoneFrame
    /\ stores_df = NoneFrame
    /\ users_df = NoneFrame
    /\ loyalty_cards_df = NoneFrame
    /\ active_cards_df = NoneFrame
    /\ section = [s \in Sections |->
                    IF s \in Before(start) THEN "nodata" ELSE "pending"]
    /\ view = <<>>

\* init_firebase(): a client, or None when the credentials are refused.
Clients == {"client", None}

\* Sprint 3 tab: any QR measurements under any target time, or any loyalty
\* cards and stores.
InitSprint3 ==
    \/ \E q \in SeqsUpTo(QRDocs, MaxQR), t \in TargetTimes, c \in Clients :
          StartAt("get_qr_data", [EmptyStore EXCEPT !.qr = q], t, c)
    \/ \E cs \in SeqsUpTo(StoreIdData, MaxCards), ss \in StoreCollections,
          c \in Clients :
          StartAt("get_qr_data",
                  [EmptyStore EXCEPT !.loyaltyCards = WithIds("c", cs),
                                     !.stores = ss], 100, c)

NextSprint3 ==
    \/ \E raises \in BOOLEAN : get_qr_data(raises)
    \/ \E raises \in BOOLEAN : get_loyalty_data(raises)
    \/ qr_section
    \/ loyalty_section

SpecSprint3 == InitSprint3 /\ [][NextSprint3]_vars

\* The language panel: any language events over any users collection.
InitLanguage ==
    \E ls \in SeqsUpTo(LangDocs, MaxLang), us \in SeqsUpTo(UserData, MaxUsers),
       c \in Clients :
       StartAt("get_language_data",
               [EmptyStore EXCEPT !.lang = ls, !.users = WithIds("u", us)],
               100, c)

NextLanguage ==
    \/ \E raises \in BOOLEAN : get_language_data(raises)
    \/ \E raises \in BOOLEAN : language_section(raises)

SpecLanguage == InitLanguage /\ [][NextLanguage]_vars

\* The purchase panel: any purchases over loyalty cards and stores.
InitPurchase ==
    \E ps \in SeqsUpTo(PurchaseDocs, MaxPurchases), cs \in PurchaseCards,
       ss \in StoreCollections, c \in Clients :
       StartAt("get_purchase_data",
               [EmptyStore EXCEPT !.purchases = WithIds("p", ps),
                                  !.loyaltyCards = cs, !.stores = ss],
               100, c)

NextPurchase ==
    \/ \E raises \in BOOLEAN : get_purchase_data(raises)
    \/ \E choice \in DOMAIN StoreNames : purchase_section(choice)

SpecPurchase == InitPurchase /\ [][NextPurchase]_vars

\* The users collection with n documents u1..un without a name, and current
\* loyalty cards held by the members whose numbers holders lists.
ScenarioStore(n, holders) ==
    [EmptyStore EXCEPT
        !.users = WithIds("u", [i \in 1..n |-> <<>>]),
        !.loyaltyCards =
            WithIds("c", [i \in DOMAIN holders |->
                            [uniandesMemberId |-> "u" \o ToString(holders[i]),
                             isCurrent |-> TRUE]])]

\* The activation panel: any users and loyalty cards, and the scenario of 10
\* users with 4 current cards held by 3 of them.
InitActivation ==
    \/ \E us \in SeqsUpTo(UserData, MaxUsers),
          cs \in SeqsUpTo(ActivationCardData, MaxCards), c \in Clients :
          StartAt("get_loyalty_activation_data",
                  [EmptyStore EXCEPT !.users = WithIds("u", us),
                                     !.loyaltyCards = WithIds("c", cs)],
                  100, c)
    \/ StartAt("get_loyalty_activation_data",
               ScenarioStore(10, <<1, 1, 2, 3>>), 100, "client")

NextActivation ==
    \/ \E raises \in BOOLEAN : get_loyalty_activation_data(raises)
    \/ activation_section

SpecActivation == InitActivation /\ [][NextActivation]_vars

\* The top-users table: any users, and current loyalty cards held by the
\* members u1, u2 and u7 (the id of no user), one card more than elsewhere so
\* that two members can hold different numbers of cards.
InitTopUsers ==
    \E us \in SeqsUpTo(UserData, MaxUsers),
       cs \in SeqsUpTo({[uniandesMemberId |-> u, isCurrent |-> TRUE] :
                           u \in {"u1", "u2", "u7"}}, MaxCards + 1) :
       StartAt("get_loyalty_activation_data",
               [EmptyStore EXCEPT !.users = WithIds("u", us),
                                  !.loyaltyCards = WithIds("c", cs)],
               100, "client")

SpecTopUsers == InitTopUsers /\ [][NextActivation]_vars

\* The whole run, both tabs, over small contents of every collection.
Init ==
    \E q \in {<<>>, <<[qr_rtime |-> 40]>>},
       cs \in {<<>>, <<[storeId |-> "s1", uniandesMemberId |-> "u1",
                        isCurrent |-> TRUE]>>,
                     <<[storeId |-> "s1", uniandesMemberId |-> "u7",
                        isCurrent |-> TRUE]>>},
       ss \in {<<>>, <<[id |-> "s1", data |-> [name |-> "Store s1"]]>>},
       us \in {<<>>, <<[name |-> "Ana"]>>},
       ls \in {<<>>, <<[timestamp |-> "t1", userId |-> "u1", lan |-> "es"]>>},
       ps \in {<<>>, <<[date |-> "2024-01-01", loyaltyCardId |-> "c1"]>>,
                     <<[loyaltyCardId |-> "c1"]>>},
       t \in {60, 100}, c \in Clients :
       StartAt("get_qr_data",
               [qr |-> q, loyaltyCards |-> WithIds("c", cs), stores |-> ss,
                users |-> WithIds("u", us), lang |-> ls,
                purchases |-> WithIds("p", ps)], t, c)

Next ==
    \/ \E raises \in BOOLEAN : get_qr_data(raises)
    \/ \E raises \in BOOLEAN : get_loyalty_data(raises)
    \/ qr_section
    \/ loyalty_section
    \/ \E raises \in BOOLEAN : get_language_data(raises)
    \/ \E raises \in BOOLEAN : language_section(raises)
    \/ \E raises \in BOOLEAN : get_purchase_data(raises)
    \/ \E choice \in DOMAIN StoreNames : purchase_section(choice)
    \/ \E raises \in BOOLEAN : get_loyalty_activation_data(raises)
    \/ activation_section

Spec == Init /\ [][Next]_vars

(***************************************************************************)
(* Properties.                                                             *)
(***************************************************************************)
QRShown == section["qr_section"] = "shown"

\* C7: when the performance categorization is computed, every render time
\* carries the label of the interval (b[k], b[k+1]] of the boundaries
\* (0, 50, 75, target time, inf) that contains it, a render time <= 0
\* carries no label, and the category counts count exactly the labelled
\* render times; with target time 100, 40 and 50 are Excellent, 101 is
\* Unsatisfactory and 0 is unlabeled.
C7_Categorization ==
    QRShown =>
        LET rt == Column(qr_df, "render_time")
            cats == view.performance_categories
            counts == view.performance_counts
            b == bins(target_time)
            In(x, k) == b[k] < x /\ x <= b[k + 1]
        IN /\ \A i \in DOMAIN rt :
                /\ \A k \in DOMAIN labels : In(rt[i], k) => cats[i] = labels[k]
                /\ rt[i] <= 0 => cats[i] = NaN
           /\ DOMAIN counts = Range(labels)
           /\ \A k \in DOMAIN labels :
                counts[labels[k]] =
                    Cardinality({i \in DOMAIN rt : In(rt[i], k)})
           /\ series_sum(counts) = Cardinality({i \in DOMAIN rt : rt[i] > 0})
           /\ target_time = 100 =>
                \A i \in DOMAIN rt :
                    /\ rt[i] \in {40, 50} => cats[i] = "Excellent"
                    /\ rt[i] = 101 => cats[i] = "Unsatisfactory"
                    /\ rt[i] = 0 => cats[i] = NaN

\* A categorization under target time 100 of a render time on a boundary
\* and a render time of 0.
C7_Witness ==
    /\ QRShown
    /\ target_time = 100
    /\ {0, 50} \subseteq Range(Column(qr_df, "render_time"))
    /\ view.performance_counts["Excellent"] = 1

\* C1: no step of a run raises a fault that is not caught: the run is never
\* aborted, and a section either shows its data or shows none.
C1_RunNeverAborts ==
    /\ pc # "aborted"
    /\ fault = "none"
    /\ \A sec \in Sections : section[sec] \in {"pending", "nodata", "shown"}

\* The section that consumes the result of a fetch stage, and what a fetch
\* stage returned.
SectionOf(stage) ==
    CASE stage = "get_qr_data" -> "qr_section"
      [] stage = "get_loyalty_data" -> "loyalty_section"
      [] stage = "get_language_data" -> "language_section"
      [] stage = "get_purchase_data" -> "purchase_section"
      [] stage = "get_loyalty_activation_data" -> "activation_section"

Returned(stage) ==
    CASE stage = "get_qr_data" -> <<qr_df>>
      [] stage = "get_loyalty_data" -> <<loyalty_df>>
      [] stage = "get_language_data" -> <<lang_df>>
      [] stage = "get_purchase_data" -> <<purchases_df, stores_df>>
      [] stage = "get_loyalty_activation_data" ->
            <<users_df, loyalty_cards_df, active_cards_df>>

\* What a section puts on display.
Displays(sec) ==
    CASE sec = "qr_section" ->
            {"average_time", "average_delta", "maximum_time", "over_target",
             "total_measurements", "performance_categories",
             "performance_counts"}
      [] sec = "loyalty_section" ->
            {"popularity_count", "total_programs", "total_cards"}
      [] sec = "language_section" ->
            {"lang_total_users", "lang_users", "language_change_rate",
             "lang_dist", "total_changes"}
      [] sec = "purchase_section" ->
            {"total_by_day", "store_filter", "filtered_data", "grouped_data",
             "peak_day", "lowest_day", "average_daily", "total_purchases"}
      [] sec = "activation_section" ->
            {"total_users", "users_with_cards", "activation_rate",
             "without_cards", "top_users_df"}

NoRecords(df) == IsNone(df) \/ empty(df)

Ran(stage) == pc = "done" \/ (pc # "aborted" /\ StageIndex(stage) < StageIndex(pc))

\* C4: a fetch stage in which the store raised, or that found no client,
\* has returned an empty frame or None and has not ended the run; its
\* section, once run, has taken its no-data branch and displays nothing.
C4_OutageShowsNoData ==
    /\ \A stage \in FetchStages :
          (stage \in unreachable \/ (db = None /\ Ran(stage))) =>
             /\ \A i \in DOMAIN Returned(stage) : NoRecords(Returned(stage)[i])
             /\ section[SectionOf(stage)] \in {"pending", "nodata"}
             /\ Displays(SectionOf(stage)) \cap DOMAIN view = {}
    /\ pc = "aborted" => \E sec \in Sections : section[sec] = "fault"
    /\ \A stage \in unreachable \cap FetchStages :
          Ran(SectionOf(stage)) => section[SectionOf(stage)] = "nodata"

\* A completed run over a store that holds documents in every collection,
\* in which the store raised in all five fetch stages.
C4_Witness ==
    /\ pc = "done"
    /\ unreachable = FetchStages
    /\ \A coll \in DOMAIN store : store[coll] # <<>>
    /\ \A sec \in Sections : section[sec] = "nodata"

Reached(stage) ==
    /\ Ran(stage)
    /\ stage \notin unreachable
    /\ db = "client"

\* C2: a ratio metric whose denominator is 0 is shown as N/A, without an
\* arithmetic fault: the language change rate when get_user_count returned
\* 0, the activation rate when there is no user.
C2_ZeroDenominatorIsNA ==
    /\ ("lang_total_users" \in DOMAIN view /\ view.lang_total_users = 0) =>
          /\ fault = "none"
          /\ "language_change_rate" \in DOMAIN view
          /\ view.language_change_rate = "N/A"
    /\ ("total_users" \in DOMAIN view /\ view.total_users = 0) =>
          /\ fault = "none"
          /\ "activation_rate" \in DOMAIN view
          /\ view.activation_rate = "N/A"

\* The name of the store with the given id, NaN when no store has the id or
\* the store has no name.
NameOf(stores, id) ==
    IF Exists(stores, id) THEN Get(Document(stores, id), "name", NaN) ELSE NaN

\* C3: the join of the loyalty cards with the stores has one row per loyalty
\* card, in the cards' order, with the card's store id and the name of its
\* store, null when no store matches; the join of the purchases with the
\* loyalty cards and the stores has one row per purchase it is given.
C3_JoinKeepsLeftRows ==
    /\ (/\ Reached("get_loyalty_data")
        /\ store.loyaltyCards # <<>>
        /\ \A i \in DOMAIN store.loyaltyCards :
              "storeId" \in DOMAIN store.loyaltyCards[i].data) =>
          /\ Len(loyalty_df.rows) = Len(store.loyaltyCards)
          /\ \A i \in DOMAIN store.loyaltyCards :
                LET id == store.loyaltyCards[i].data["storeId"]
                IN /\ loyalty_df.rows[i]["storeId"] = id
                   /\ loyalty_df.rows[i]["name"] = NameOf(store.stores, id)
    /\ (/\ Reached("get_purchase_data")
        /\ \E i \in DOMAIN store.purchases :
              "loyaltyCardId" \in DOMAIN store.purchases[i].data) =>
          /\ ~IsNone(purchases_df)
          /\ Len(purchases_df.rows) =
                Cardinality({i \in DOMAIN store.purchases :
                    "loyaltyCardId" \in DOMAIN store.purchases[i].data})

\* Every store id the loyalty cards name is the id of a store with a name.
StoresResolve ==
    \A i \in DOMAIN store.loyaltyCards :
        "storeId" \in DOMAIN store.loyaltyCards[i].data =>
            /\ Exists(store.stores, store.loyaltyCards[i].data["storeId"])
            /\ "name" \in DOMAIN Document(store.stores,
                                          store.loyaltyCards[i].data["storeId"])

\* C5: a document without its source field yields a record with the default
\* and costs the stage no other record: get_qr_data returns one record per
\* measurement, with render time 0 for a measurement without qr_rtime, and
\* get_loyalty_data returns one record per loyalty card when the stores of
\* the cards that name one exist.
C5_MissingFieldDefaulted ==
    /\ Reached("get_qr_data") =>
          /\ Len(qr_df.rows) = Len(store.qr)
          /\ \A i \in DOMAIN store.qr :
                "qr_rtime" \notin DOMAIN store.qr[i] =>
                    qr_df.rows[i]["render_time"] = 0
    /\ (/\ Reached("get_loyalty_data")
        /\ StoresResolve
        /\ \E i \in DOMAIN store.loyaltyCards :
              "storeId" \in DOMAIN store.loyaltyCards[i].data) =>
          Len(loyalty_df.rows) = Len(store.loyaltyCards)

\* C6: whenever the purchases are joined, every purchase, also one without
\* loyaltyCardId, has its row in the output, in order, and a purchase without
\* loyaltyCardId has a null store name.
C6_KeylessLeftRowKept ==
    (Reached("get_purchase_data") /\ ~IsNone(purchases_df)) =>
        /\ Len(purchases_df.rows) = Len(store.purchases)
        /\ \A i \in DOMAIN store.purchases :
              "loyaltyCardId" \notin DOMAIN store.purchases[i].data =>
                  isna(purchases_df.rows[i]["store_name"])

\* C8: the counts per group sum to the number of records: 'Total Cards' is
\* the number of rows of the joined loyalty cards, and the language
\* distribution sums to the number of language events.
C8_GroupCountsSumToRows ==
    /\ section["loyalty_section"] = "shown" =>
          /\ series_sum(view.popularity_count) = Len(loyalty_df.rows)
          /\ view.total_cards = Len(loyalty_df.rows)
    /\ section["language_section"] = "shown" =>
          series_sum(view.lang_dist) = Len(lang_df.rows)

DistributionKeys(cells) == [i \in DOMAIN cells |-> cells[i].key]

\* The cells are the 7 weekdays in order, each with the number of the rows
\* dated on that weekday, and sum to the number of dated rows.
IsWeekdayDistribution(cells, rows) ==
    /\ DistributionKeys(cells) = WeekDays
    /\ \A i \in DOMAIN WeekDays :
          cells[i].value =
              Cardinality({j \in DOMAIN rows : rows[j]["weekday"] = WeekDays[i]})
    /\ cells_sum(cells) =
          Cardinality({j \in DOMAIN rows : ~isna(rows[j]["weekday"])})

Holders ==
    {i \in DOMAIN store.users :
        \E j \in DOMAIN store.loyaltyCards :
            /\ Get(store.loyaltyCards[j].data, "uniandesMemberId", None)
                  = store.users[i].id
            /\ Get(store.loyaltyCards[j].data, "isCurrent",
                   Get(store.loyaltyCards[j].data, "current", FALSE)) = TRUE}

\* C10: the activation rate is the share of the users who hold a current
\* loyalty card, with one decimal; it is at most 100%, 'Users with Active
\* Cards' is at most 'Total Users', and 10 users of whom 3 hold the 4 current
\* cards give "30.0%".
C10_ActivationRate ==
    "activation_rate" \in DOMAIN view =>
        /\ view.total_users = Len(store.users)
        /\ view.users_with_cards = Cardinality(Holders)
        /\ view.users_with_cards <= view.total_users
        /\ view.activation_rate =
              percent(Cardinality(Holders), Len(store.users))
        /\ store = ScenarioStore(10, <<1, 1, 2, 3>>) =>
              view.activation_rate = "30.0%"

\* C11: under every target time of the slider the boundaries
\* (0, 50, 75, target time, inf) increase strictly, so the QR section, run on
\* measurements, computes the categorization and gives every render time
\* above 0 one of the four labels.
C11_BoundariesIncrease ==
    section["qr_section"] \in {"shown", "fault"} =>
        /\ target_time \in 50..200
        /\ BinsIncrease(bins(target_time))
        /\ QRShown
        /\ \A i \in DOMAIN qr_df.rows :
              qr_df.rows[i]["render_time"] > 0 =>
                  view.performance_categories[i] \in Range(labels)

\* The number of current loyalty cards of the member with the given id.
CurrentCards(id) ==
    Cardinality({j \in DOMAIN store.loyaltyCards :
        /\ Get(store.loyaltyCards[j].data, "uniandesMemberId", None) = id
        /\ Get(store.loyaltyCards[j].data, "isCurrent",
               Get(store.loyaltyCards[j].data, "current", FALSE)) = TRUE})

\* The ids of the members who hold a current loyalty card.
CardHolders ==
    {id \in {Get(store.loyaltyCards[j].data, "uniandesMemberId", None) :
                j \in DOMAIN store.loyaltyCards} :
        ~isna(id) /\ CurrentCards(id) > 0}

\* C12: the top-users table, when the activation section builds it, has one
\* row per top user id, at most 5, and the 'Active Cards' value of a row is
\* the number of current cards of a user who has the row's name and is among
\* the card holders.
C12_TopUsersRows ==
    "top_users_df" \in DOMAIN view =>
        /\ Len(view.top_users_df) =
              IF Cardinality(CardHolders) < 5 THEN Cardinality(CardHolders)
              ELSE 5
        /\ \A i \in DOMAIN view.top_users_df :
              \E u \in DOMAIN store.users :
                  /\ store.users[u].id \in CardHolders
                  /\ Get(store.users[u].data, "name", "Unknown")
                        = view.top_users_df[i].User
                  /\ CurrentCards(store.users[u].id)
                        = view.top_users_df[i].Active_Cards

====
